---------------------------- MODULE Spec2Model ----------------------------
(***************************************************************************)
(* Skyperious command-line orchestrators (src/skyperious/main.py):         *)
(* run() argument handling, run_merge, run_search, run_diff, run_export,   *)
(* the postback queue between a worker thread and the orchestrator loop,   *)
(* and the worker thread of the workers module, which is not part of the   *)
(* available source and is modelled from the specification text.           *)
(*                                                                         *)
(* File names are modelled as naturals whose order is the string order     *)
(* used by sorted(); names holding a "*" wildcard are not modelled.        *)
(*                                                                         *)
(* Spec and FairSpec are the four commands without the --output option,    *)
(* OutputSpec is merge with --output, BarSpec is one ProgressBar with its  *)
(* ticker thread, update() taken statement by statement (BarFairSpec: the  *)
(* ticker thread scheduled fairly), and LogSpec is log() / status() /      *)
(* process_deferreds in the graphical program, called by several threads.  *)
(***************************************************************************)
EXTENDS Integers, Sequences, FiniteSets

\* ------------------------------------------------------------------ bounds
MaxName == 3        \* file names are 1..MaxName
MaxFiles == 3       \* at most this many FILE arguments on the command line
MaxChats == 3       \* at most this many chats in all source databases of one run
MaxDiffMsgs == 1    \* at most this many new messages in one chat's diff
MaxOutput == 1      \* merge: --output names are 1..MaxOutput
MaxIndex == 2       \* progress bar alone: "index" is -1..MaxIndex
MaxCount == 2       \* progress bar alone: "count" is 0..MaxCount
MaxLoggers == 2     \* graphical program: threads calling log() / status()
MaxCalls == 3       \* graphical program: log() / status() calls in all

Names == 1..MaxName

\* ------------------------------------------------------- pure helper functions
RECURSIVE SeqToSet(_)
SeqToSet(s) == IF s = <<>> THEN {} ELSE {Head(s)} \cup SeqToSet(Tail(s))

Min(S) == CHOOSE x \in S : \A y \in S : x <= y

\* sorted(set(...)) of main.py line 524: ascending, duplicates removed.
RECURSIVE SortedSet(_)
SortedSet(S) == IF S = {} THEN <<>>
                ELSE <<Min(S)>> \o SortedSet(S \ {Min(S)})

\* os.path.realpath: names 1 and 2 are two spellings of one file (a link or
\* a relative and an absolute path); every other name is its own file.
realpath(f) == IF f = 2 THEN 1 ELSE f

\* Queue.Queue() is created without maxsize: 0 means unbounded.
postbacks_maxsize == 0

\* Queue.put blocks while a bounded queue is full.
CanPutBounded(q) == Len(q) < 1
CanPut(q) == postbacks_maxsize = 0 \/ Len(q) < postbacks_maxsize

\* Queue.get: blocks while empty, then removes and returns the oldest item.
QueueGetLifo(q) == [item |-> q[Len(q)], rest |-> SubSeq(q, 1, Len(q) - 1)]
QueueGet(q) == [item |-> Head(q), rest |-> Tail(q)]

\* A postback message (a Python dict); a field that is absent is -1 / FALSE.
\* id and job are bookkeeping: emission serial number and emitting job.
NoFields == [id |-> 0, job |-> 0, error |-> FALSE, done |-> FALSE,
             stopped |-> FALSE, diff |-> -1, index |-> -1, count |-> -1,
             output |-> FALSE]

VARIABLES
    command,        \* arguments.command
    FILE1, FILE2,   \* merge, diff: the FILE1 / FILE2 arguments as given,
                    \* until the orchestrator has taken its databases
    FILE,           \* arguments.FILE
    is_verbose,     \* --verbose
    output_filename,\* merge: the -o / --output argument, 0 if not given
    pc,             \* position of the main thread
    dbs,            \* opened databases (file names), in list order
    db_base,        \* run_merge: the popped base database, 0 if none
    k,              \* index into dbs of the loop variable db / db1
    exc,            \* an exception is propagating out of the try block
    counts,         \* the defaultdict: source index -> [chats, msgs]
    postbacks,      \* the Queue.Queue between worker and main thread
    outfile,        \* run_merge, the file named output_filename (or the new
                    \* unique name): "none" (untouched), "present" (written
                    \* by run_merge), "deleted"
    stdout,         \* what output() printed: sequence of <<tag, source>>
    stderr,         \* log() lines written while verbose: postback ids
    deferred_logs,  \* log() lines buffered: postback ids
    bar_started, bar_stopped, bar_max, bar_value,   \* the ProgressBar
    bar_percent,    \* ProgressBar.percent
    bar_running,    \* ProgressBar.is_running
    bpc,            \* ProgressBar: position of each thread using the bar
    update_value,   \* ProgressBar.update: each thread's argument "value"
    new_percent,    \* ProgressBar.update: each thread's local new_percent
    progress,       \* history: <<index, count>> of the last progress postback
    drawn,          \* history: the percentage last drawn, -1 if none
    workers_created,\* number of worker instances constructed
    wpc,            \* worker thread: "none","idle","check","chat","exited"
    wqueue,         \* jobs handed to work() and not yet taken
    wjob,           \* source index of the job being run, 0 if none
    wtotal, wleft,  \* chats of the running job: total and still to process
    wchats,         \* chats of all jobs taken so far
    wstop,          \* stop() has been called
    submitted,      \* history: source index of every work() call, in order
    emitted,        \* history: every postback put on the queue, in order
    handled,        \* history: every postback taken by the main loop
    handled_for,    \* history: the loop's source index at each handled one
    open_failed,    \* history: file name whose open/read raised, 0 if none
    interrupted,    \* history: a KeyboardInterrupt was raised
    window,         \* the module's "window": the main window exists
    deferred_status,\* the module's deferred_status list: call ids
    posted,         \* LogEvents posted to the window: call ids, in order
    posted_status,  \* StatusEvents posted to the window: call ids, in order
    lpc,            \* log() / status(): position of each calling thread
    lkind,          \* which of the two each thread is in: "log", "status"
    lmsg,           \* each thread's local msg: the id of its call
    lidx,           \* process_deferreds: each thread's list iterator index
    lcur,           \* process_deferreds: each thread's loop variable msg
    ncalls,         \* history: number of log() / status() calls made
    buffered,       \* history: ids appended to deferred_logs, in order
    log_raised      \* history: ids of the calls that ended in an exception

vars == <<command, FILE1, FILE2, FILE, is_verbose, output_filename, pc, dbs,
          db_base, k, exc, counts, postbacks, outfile, stdout, stderr,
          deferred_logs, bar_started, bar_stopped, bar_max, bar_value,
          bar_percent, bar_running, bpc, update_value, new_percent, progress,
          drawn,
          workers_created,
          wpc, wqueue, wjob, wtotal, wleft, wchats, wstop, submitted, emitted,
          handled, handled_for, open_failed, interrupted,
          window, deferred_status, posted, posted_status, lpc, lkind, lmsg,
          lidx, lcur, ncalls, buffered, log_raised>>

mainVars == <<command, FILE1, FILE2, FILE, is_verbose, output_filename, pc,
              dbs, db_base, k, exc, counts, outfile, stdout, stderr,
              deferred_logs, bar_started, bar_stopped, bar_max, bar_value,
              bar_percent, bar_running, bpc, update_value, new_percent,
              progress, drawn, workers_created,
              submitted, handled, handled_for, open_failed, interrupted,
              window, deferred_status, posted, posted_status, lpc, lkind,
              lmsg, lidx, lcur, ncalls, buffered, log_raised>>

argVars == <<command, is_verbose, output_filename>>
barVars == <<bar_started, bar_stopped, bar_max, bar_value, bar_percent>>
\* The ticker thread of the ProgressBar and the steps of update().
tickVars == <<bar_running, bpc, update_value, new_percent, progress, drawn>>
logVars == <<stderr, deferred_logs>>
\* The main window and the threads inside log() / status().
guiVars == <<window, deferred_status, posted, posted_status, lpc, lkind, lmsg,
             lidx, lcur, ncalls, buffered, log_raised>>
workerVars == <<wpc, wqueue, wjob, wtotal, wleft, wchats, wstop>>
histVars == <<submitted, emitted, handled, handled_for>>

SeqsUpTo(n) == UNION {[1..m -> Names] : m \in 1..n}

\* The threads that call ProgressBar.update: the orchestrator's (main) and
\* the bar's own ticker thread.
Threads == {"main", "ticker"}

\* The threads that call log() and status() while the graphical program
\* runs: thread 1 is the main thread, the others are background threads.
Loggers == 1..MaxLoggers

\* ------------------------------------------------------------------- Init
\* The state when run() has parsed the command line: one of the given
\* commands, and for merge one of the given --output values.
Start(commands, outputs) ==
    /\ command \in commands
    /\ is_verbose \in BOOLEAN
    /\ output_filename \in (IF command = "merge" THEN outputs ELSE {0})
    /\ IF command = "diff"
         THEN FILE1 \in [1..1 -> Names] /\ FILE2 \in [1..1 -> Names]
                /\ FILE = <<>>
         ELSE IF command = "merge"
         THEN FILE1 \in [1..1 -> Names] /\ FILE2 \in SeqsUpTo(MaxFiles - 1)
                /\ FILE = <<>>
         ELSE FILE1 = <<>> /\ FILE2 = <<>> /\ FILE \in SeqsUpTo(MaxFiles)
    /\ pc = "run"
    /\ dbs = <<>> /\ db_base = 0 /\ k = 0 /\ exc = FALSE
    /\ counts = <<>>
    /\ postbacks = <<>>
    /\ outfile = "none"
    /\ stdout = <<>> /\ stderr = <<>> /\ deferred_logs = <<>>
    /\ bar_started = FALSE /\ bar_stopped = FALSE
    /\ bar_max = 100 /\ bar_value = 0 /\ bar_percent = 0
    /\ bar_running = FALSE
    /\ bpc = [t \in Threads |-> "new"]
    /\ update_value = [t \in Threads |-> 0]
    /\ new_percent = [t \in Threads |-> 0]
    /\ progress = <<>> /\ drawn = -1
    /\ workers_created = 0
    /\ wpc = "none" /\ wqueue = <<>> /\ wjob = 0 /\ wtotal = 0 /\ wleft = 0
    /\ wchats = 0
    /\ wstop = FALSE
    /\ submitted = <<>> /\ emitted = <<>> /\ handled = <<>>
    /\ handled_for = <<>>
    /\ open_failed = 0 /\ interrupted = FALSE
    /\ window = FALSE /\ deferred_status = <<>>
    /\ posted = <<>> /\ posted_status = <<>>
    /\ lpc = [t \in Loggers |-> "idle"]
    /\ lkind = [t \in Loggers |-> "log"]
    /\ lmsg = [t \in Loggers |-> 0]
    /\ lidx = [t \in Loggers |-> 0]
    /\ lcur = [t \in Loggers |-> 0]
    /\ ncalls = 0 /\ buffered = <<>> /\ log_raised = {}

\* Every command, without the --output option.
Init == Start({"merge", "diff", "search", "export"}, {0})


\* ------------------------------------------------------- small operators
\* output(), lines 725-733: record a printed line.
output(tag, src) == stdout' = Append(stdout, <<tag, src>>)

\* log(), lines 168-174, with no main window (command-line mode, is_cli):
\* written to stderr when verbose, otherwise appended to deferred_logs.
LogLineDeferred(id) ==
    deferred_logs' = Append(deferred_logs, id) /\ UNCHANGED stderr
LogLine(id) ==
    IF is_verbose
      THEN stderr' = Append(stderr, id) /\ UNCHANGED deferred_logs
      ELSE deferred_logs' = Append(deferred_logs, id) /\ UNCHANGED stderr

\* ProgressBar.update, line 667: the value clamped into [min, max], min = 0.
Clamp(max, value) ==
    IF value < 0 THEN (IF max < 0 THEN max ELSE 0)
    ELSE IF value > max THEN max ELSE value

\* ProgressBar.update, line 668: int(round(100.0 * value / (max or 1))),
\* for value >= 0 and max >= 0; round() rounds a half away from zero.
Percent(val, max) ==
    LET m == IF max = 0 THEN 1 ELSE max
    IN (200 * val + m) \div (2 * m)

\* counts[key]["chats"] += 1; counts[key]["msgs"] += len(messages)
\* (lines 294-295, 428/436); a missing key is created (defaultdict).
Entry(c, key) == IF key \in DOMAIN c THEN c[key] ELSE [chats |-> 0, msgs |-> 0]
CountDiffOnePerChat(c, key, n) ==
    [j \in DOMAIN c \cup {key} |->
        IF j = key THEN [chats |-> Entry(c, key).chats + 1,
                         msgs |-> Entry(c, key).msgs + 1]
        ELSE c[j]]
CountDiff(c, key, n) ==
    [j \in DOMAIN c \cup {key} |->
        IF j = key THEN [chats |-> Entry(c, key).chats + 1,
                         msgs |-> Entry(c, key).msgs + n]
        ELSE c[j]]

\* counts[db1] read in the summary loop (lines 315-318) creates the keys.
TouchAll(c, keys) == [j \in DOMAIN c \cup keys |-> Entry(c, j)]

\* run_merge line 301: "if not db1: break", db1 having been set to None
\* (line 289) when the job delivered an error.
MergeBreaksForNever(db1_is_none) == FALSE
MergeBreaksFor(db1_is_none) == db1_is_none

\* run_search lines 334-337: the error ends the while loop only, and the
\* for loop goes on with the next database.
SearchBreaksForAlways(is_error) == is_error
SearchBreaksFor(is_error) == FALSE

\* The for loop's step to the next list element.
NextSourceSame(i) == i
NextSource(i) == i + 1

\* run_merge line 310: "if not counts".
NothingMergedNoMsgs(c) == \A j \in DOMAIN c : c[j].msgs = 0
NothingMerged(c) == DOMAIN c = {}

\* The keys that end the "while True" loop of run_merge / run_diff /
\* run_search: "error" and "done" (lines 287-292, 334-340, 421-426).
EndsLoopAlsoDiff(result) == result.error \/ result.done \/ result.diff >= 0
EndsLoopAlsoOutput(result) == result.error \/ result.done \/ result.output
EndsLoopOnlyError(result) == result.error
EndsLoop(result) == result.error \/ result.done

\* run_search line 340: "if result.get('count', 0) or is_verbose"; count is
\* the result's count, 0 if it has none.
ShowsResultAlways(count, verbose) == TRUE
ShowsResult(count, verbose) == count # 0 \/ verbose

\* Lines 736-738: what becomes of an exception that leaves run(): a
\* KeyboardInterrupt is caught and ends the program through sys.exit(),
\* anything else ends it with a stack trace.
TopLevelNoHandler(is_interrupt) == "raised"
TopLevel(is_interrupt) == IF is_interrupt THEN "sys_exit" ELSE "raised"

\* shutil.copyfile(db_base.filename, output_filename), line 272, raises
\* shutil.Error when both names denote one file.
SameFile(f, g) == realpath(f) = realpath(g)

\* ------------------------------------------------------------ run()
\* Lines 517-550: FILE = sorted(set(FILE1 + FILE2)) and the dispatch.
\* run_diff(*arguments.FILE) raises TypeError unless FILE has two elements.
\* FILE1 and FILE2 are not read after line 520; they are kept until the
\* orchestrator has its databases and emptied there, so that runs
\* differing only in the spelling of the command line share their later
\* states.
run ==
    /\ pc = "run"
    /\ LET all == IF command \in {"merge", "diff"} THEN FILE1 \o FILE2
                  ELSE FILE
           files == SortedSet(SeqToSet(all))
       IN /\ FILE' = files
          /\ pc' = IF command = "diff"
                     THEN (IF Len(files) = 2 THEN "run_diff" ELSE "raised")
                     ELSE "open"
    /\ UNCHANGED <<argVars, FILE1, FILE2, tickVars, guiVars, dbs, db_base, k, exc,
                   counts, postbacks, outfile, stdout, logVars, barVars,
                   workers_created, workerVars, histVars, open_failed,
                   interrupted>>

\* run_diff lines 402-404: the same real path, error and return.
run_diff_same ==
    /\ pc = "run_diff"
    /\ realpath(FILE[1]) = realpath(FILE[2])
    /\ output("cannot compare with itself", FILE[1])
    /\ pc' = "returned"
    /\ UNCHANGED <<argVars, FILE1, FILE2, tickVars, guiVars, FILE, dbs, db_base, k, exc, counts, postbacks,
                   outfile, logVars, barVars, workers_created, workerVars,
                   histVars, open_failed, interrupted>>

run_diff_distinct ==
    /\ pc = "run_diff"
    /\ realpath(FILE[1]) # realpath(FILE[2])
    /\ pc' = "open"
    /\ UNCHANGED <<argVars, FILE1, FILE2, tickVars, guiVars, FILE, dbs, db_base, k, exc, counts, postbacks,
                   outfile, stdout, logVars, barVars, workers_created,
                   workerVars, histVars, open_failed, interrupted>>

\* skypedata.SkypeDatabase(f), one element of the list comprehension of
\* lines 260, 324, 351, 405: the database opens ...
SkypeDatabase ==
    /\ pc = "open"
    /\ Len(dbs) < Len(FILE)
    /\ dbs' = Append(dbs, FILE[Len(dbs) + 1])
    /\ UNCHANGED <<argVars, FILE1, FILE2, tickVars, guiVars, FILE, pc, db_base, k, exc, counts, postbacks,
                   outfile, stdout, logVars, barVars, workers_created,
                   workerVars, histVars, open_failed, interrupted>>

\* ... or cannot be opened: the exception leaves the orchestrator, which
\* has no handler around the list comprehension.
SkypeDatabaseFails ==
    /\ pc = "open"
    /\ Len(dbs) < Len(FILE)
    /\ open_failed' = FILE[Len(dbs) + 1]
    /\ pc' = "raised"
    /\ UNCHANGED <<argVars, FILE1, FILE2, tickVars, guiVars, FILE, dbs, db_base, k, exc, counts, postbacks,
                   outfile, stdout, logVars, barVars, workers_created,
                   workerVars, histVars, interrupted>>

\* run_merge lines 261-272 when --output names the base database itself:
\* the base is popped, the bar started, and copyfile raises before the try
\* statement is reached.
run_merge_copy_same ==
    /\ pc = "open" /\ command = "merge" /\ Len(dbs) = Len(FILE)
    /\ output_filename # 0 /\ SameFile(dbs[Len(dbs)], output_filename)
    /\ db_base' = dbs[Len(dbs)]
    /\ dbs' = SubSeq(dbs, 1, Len(dbs) - 1)
    /\ output("creating", dbs[Len(dbs)])
    /\ bar_started' = TRUE
    /\ pc' = "raised"
    /\ FILE1' = <<>> /\ FILE2' = <<>>
    /\ UNCHANGED <<argVars, tickVars, guiVars, FILE, k, exc, counts, postbacks,
                   outfile, logVars, bar_stopped, bar_max, bar_value,
                   bar_percent, workers_created, workerVars, histVars,
                   open_failed, interrupted>>

\* run_merge lines 261-278: pop the base, copy it to the output file (the
\* name given with --output, or else a new unique name), start the bar,
\* create the worker. outfile is the state of the file of that name.
run_merge_prepare ==
    /\ pc = "open" /\ command = "merge" /\ Len(dbs) = Len(FILE)
    /\ output_filename = 0 \/ ~SameFile(dbs[Len(dbs)], output_filename)
    /\ db_base' = dbs[Len(dbs)]
    /\ dbs' = SubSeq(dbs, 1, Len(dbs) - 1)
    /\ output("creating", dbs[Len(dbs)])
    /\ bar_started' = TRUE
    /\ outfile' = "present"
    /\ workers_created' = workers_created + 1
    /\ wpc' = "idle"
    /\ k' = 1
    /\ pc' = "for"
    /\ FILE1' = <<>> /\ FILE2' = <<>>
    /\ UNCHANGED <<argVars, tickVars, guiVars, FILE, exc, counts, postbacks, logVars,
                   bar_stopped, bar_max, bar_value, bar_percent, wqueue,
                   wjob, wtotal, wleft, wchats, wstop, histVars, open_failed,
                   interrupted>>

\* run_search lines 325-327.
run_search_prepare ==
    /\ pc = "open" /\ command = "search" /\ Len(dbs) = Len(FILE)
    /\ workers_created' = workers_created + 1
    /\ wpc' = "idle"
    /\ k' = 1
    /\ pc' = "for"
    /\ FILE1' = <<>> /\ FILE2' = <<>>
    /\ UNCHANGED <<argVars, tickVars, guiVars, FILE, dbs, db_base, exc, counts,
                   postbacks, outfile, stdout, logVars, barVars, wqueue,
                   wjob, wtotal, wleft, wchats, wstop, histVars, open_failed,
                   interrupted>>

\* run_diff lines 406-416.
run_diff_prepare ==
    /\ pc = "open" /\ command = "diff" /\ Len(dbs) = Len(FILE)
    /\ bar_started' = TRUE
    /\ workers_created' = workers_created + 1
    /\ wpc' = "idle"
    /\ k' = 1
    /\ pc' = "work"
    /\ FILE1' = <<>> /\ FILE2' = <<>>
    /\ UNCHANGED <<argVars, tickVars, guiVars, FILE, dbs, db_base, exc, counts,
                   postbacks, outfile, stdout, logVars, bar_stopped, bar_max,
                   bar_value, bar_percent, wqueue, wjob, wtotal, wleft,
                   wchats, wstop, histVars, open_failed, interrupted>>

\* run_export lines 351-354.
run_export_prepare ==
    /\ pc = "open" /\ command = "export" /\ Len(dbs) = Len(FILE)
    /\ k' = 1
    /\ pc' = "export"
    /\ FILE1' = <<>> /\ FILE2' = <<>>
    /\ UNCHANGED <<argVars, tickVars, guiVars, FILE, dbs, db_base, exc, counts, postbacks,
                   outfile, stdout, logVars, barVars, workers_created,
                   workerVars, histVars, open_failed, interrupted>>

\* worker.work(job): the job is handed to the worker thread.
work(job) ==
    /\ wqueue' = Append(wqueue, job)
    /\ submitted' = Append(submitted, job)

\* "for db1 in dbs" / "for db in dbs" with the list used up: the try block
\* ends normally and its finally clause runs.
for_exhausted ==
    /\ pc = "for" /\ k > Len(dbs)
    /\ pc' = "finally"
    /\ UNCHANGED <<argVars, FILE1, FILE2, tickVars, guiVars, FILE, dbs, db_base, k, exc, counts, postbacks,
                   outfile, stdout, logVars, barVars, workers_created,
                   workerVars, histVars, open_failed, interrupted>>

\* run_merge lines 281-284.
run_merge_work ==
    /\ pc = "for" /\ command = "merge" /\ k <= Len(dbs)
    /\ work(k)
    /\ pc' = "get"
    /\ UNCHANGED <<argVars, FILE1, FILE2, tickVars, guiVars, FILE, dbs, db_base, k, exc, counts, postbacks,
                   outfile, stdout, logVars, barVars, workers_created, wpc,
                   wjob, wtotal, wleft, wchats, wstop, emitted, handled, handled_for,
                   open_failed, interrupted>>

\* run_merge lines 281-282: db1.get_conversations() cannot read the file;
\* the exception leaves the try block through its finally clause.
run_merge_read_fails ==
    /\ pc = "for" /\ command = "merge" /\ k <= Len(dbs)
    /\ open_failed' = dbs[k]
    /\ exc' = TRUE
    /\ pc' = "finally"
    /\ UNCHANGED <<argVars, FILE1, FILE2, tickVars, guiVars, FILE, dbs, db_base, k, counts, postbacks,
                   outfile, stdout, logVars, barVars, workers_created,
                   workerVars, histVars, interrupted>>

\* run_search lines 330-331.
run_search_work ==
    /\ pc = "for" /\ command = "search" /\ k <= Len(dbs)
    /\ LogLine(0)
    /\ work(k)
    /\ pc' = "get"
    /\ UNCHANGED <<argVars, FILE1, FILE2, tickVars, guiVars, FILE, dbs, db_base, k, exc, counts, postbacks,
                   outfile, stdout, barVars, workers_created, wpc, wjob,
                   wtotal, wleft, wchats, wstop, emitted, handled, handled_for,
                   open_failed, interrupted>>

\* run_diff line 418.
run_diff_work ==
    /\ pc = "work" /\ command = "diff"
    /\ work(1)
    /\ pc' = "get"
    /\ UNCHANGED <<argVars, FILE1, FILE2, tickVars, guiVars, FILE, dbs, db_base, k, exc, counts, postbacks,
                   outfile, stdout, logVars, barVars, workers_created, wpc,
                   wjob, wtotal, wleft, wchats, wstop, emitted, handled, handled_for,
                   open_failed, interrupted>>

\* "if 'index' in result: bar.max = result['count']; bar.update(index)".
BarProgress(result) ==
    IF result.index >= 0
      THEN /\ bar_max' = result.count
           /\ bar_value' = Clamp(result.count, result.index)
           /\ bar_percent' = Percent(Clamp(result.count, result.index),
                                     result.count)
      ELSE UNCHANGED <<bar_max, bar_value, bar_percent>>

\* "if result.get('output'): log(result['output'])".
LogOutput(result) ==
    IF result.output THEN LogLine(result.id) ELSE UNCHANGED logVars

\* result = postbacks.get(), with the bookkeeping of what was taken.
Take(result, rest) ==
    /\ postbacks' = rest
    /\ handled' = Append(handled, result)
    /\ handled_for' = Append(handled_for, k)

\* run_merge lines 286-306: one pass of the while loop and, when the loop
\* is left, the rest of the for body.
run_merge_get ==
    /\ pc = "get" /\ command = "merge" /\ postbacks # <<>>
    /\ LET g == QueueGet(postbacks)
           result == g.item
       IN /\ Take(result, g.rest)
          /\ IF EndsLoop(result)
               THEN /\ IF result.error THEN output("error merging", k)
                                       ELSE UNCHANGED stdout
                    /\ IF MergeBreaksFor(result.error)
                         THEN /\ pc' = "finally"
                              /\ UNCHANGED <<k, barVars>>
                         ELSE /\ bar_stopped' = TRUE
                              /\ bar_value' = Clamp(bar_max, bar_max)
                              /\ bar_percent' =
                                    Percent(Clamp(bar_max, bar_max), bar_max)
                              /\ k' = NextSource(k)
                              /\ pc' = "for"
                              /\ UNCHANGED <<bar_started, bar_max>>
                    /\ UNCHANGED <<counts, logVars>>
               ELSE /\ counts' = IF result.diff >= 0
                                   THEN CountDiff(counts, k, result.diff)
                                   ELSE counts
                    /\ BarProgress(result)
                    /\ LogOutput(result)
                    /\ UNCHANGED <<pc, k, stdout, bar_started, bar_stopped>>
    /\ UNCHANGED <<argVars, FILE1, FILE2, tickVars, guiVars, FILE, dbs, db_base, exc, outfile,
                   workers_created, workerVars, submitted, emitted,
                   open_failed, interrupted>>

\* run_search lines 333-344. result["output"] of a dict without that key
\* raises KeyError.
run_search_get ==
    /\ pc = "get" /\ command = "search" /\ postbacks # <<>>
    /\ LET g == QueueGet(postbacks)
           result == g.item
           count == IF result.count = -1 THEN 0 ELSE result.count
       IN /\ Take(result, g.rest)
          /\ IF EndsLoop(result)
               THEN /\ IF result.error
                         THEN output("error searching", k)
                                /\ UNCHANGED logVars
                         ELSE LogLine(0) /\ UNCHANGED stdout
                    /\ IF SearchBreaksFor(result.error)
                         THEN pc' = "finally" /\ UNCHANGED k
                         ELSE pc' = "for" /\ k' = NextSource(k)
                    /\ UNCHANGED exc
               ELSE IF ShowsResult(count, is_verbose)
               THEN IF result.output
                      THEN /\ output("result", k)
                           /\ UNCHANGED <<pc, k, exc, logVars>>
                      ELSE /\ exc' = TRUE /\ pc' = "finally"
                           /\ UNCHANGED <<k, stdout, logVars>>
               ELSE UNCHANGED <<pc, k, exc, stdout, logVars>>
    /\ UNCHANGED <<argVars, FILE1, FILE2, tickVars, guiVars, FILE, dbs, db_base, counts, outfile, barVars,
                   workers_created, workerVars, submitted, emitted,
                   open_failed, interrupted>>

\* run_diff lines 420-441; counts is keyed by db1, the first database.
run_diff_get ==
    /\ pc = "get" /\ command = "diff" /\ postbacks # <<>>
    /\ LET g == QueueGet(postbacks)
           result == g.item
       IN /\ Take(result, g.rest)
          /\ IF EndsLoop(result)
               THEN /\ IF result.error THEN output("error scanning", 1)
                                       ELSE UNCHANGED stdout
                    /\ pc' = "finally"
                    /\ UNCHANGED <<counts, logVars, barVars>>
               ELSE /\ counts' = IF result.diff >= 0
                                   THEN CountDiff(counts, 1, result.diff)
                                   ELSE counts
                    /\ BarProgress(result)
                    /\ LogOutput(result)
                    /\ UNCHANGED <<pc, stdout, bar_started, bar_stopped>>
    /\ UNCHANGED <<argVars, FILE1, FILE2, tickVars, guiVars, FILE, dbs, db_base, k, exc, outfile,
                   workers_created, workerVars, submitted, emitted,
                   open_failed, interrupted>>

\* Ctrl-C while the main thread waits in postbacks.get().
KeyboardInterrupt ==
    /\ pc = "get"
    /\ interrupted' = TRUE
    /\ exc' = TRUE
    /\ pc' = "finally"
    /\ UNCHANGED <<argVars, FILE1, FILE2, tickVars, guiVars, FILE, dbs, db_base, k, counts, postbacks,
                   outfile, stdout, logVars, barVars, workers_created,
                   workerVars, histVars, open_failed>>

\* finally: worker.stop() ...
worker_stop ==
    /\ pc = "finally"
    /\ wstop' = TRUE
    /\ pc' = "join"
    /\ UNCHANGED <<argVars, FILE1, FILE2, tickVars, guiVars, FILE, dbs, db_base, k, exc, counts, postbacks,
                   outfile, stdout, logVars, barVars, workers_created, wpc,
                   wqueue, wjob, wtotal, wleft, wchats, histVars, open_failed,
                   interrupted>>

\* ... and worker.join(), which returns once the worker thread has ended.
\* A propagating exception then leaves the function; KeyboardInterrupt is
\* caught at lines 737-738 by sys.exit(). run_search has nothing after its
\* try statement.
worker_join ==
    /\ pc = "join"
    /\ wpc = "exited"
    /\ pc' = IF exc THEN TopLevel(interrupted)
             ELSE IF command = "search" THEN "returned"
             ELSE "after"
    /\ UNCHANGED <<argVars, FILE1, FILE2, tickVars, guiVars, FILE, dbs, db_base, k, exc, counts, postbacks,
                   outfile, stdout, logVars, barVars, workers_created,
                   workerVars, histVars, open_failed, interrupted>>

\* run_merge lines 310-313.
run_merge_nothing ==
    /\ pc = "after" /\ command = "merge"
    /\ NothingMerged(counts)
    /\ output("nothing new to merge", 0)
    /\ outfile' = "deleted"
    /\ pc' = "returned"
    /\ UNCHANGED <<argVars, FILE1, FILE2, tickVars, guiVars, FILE, dbs, db_base, k, exc, counts, postbacks,
                   logVars, barVars, workers_created, workerVars, histVars,
                   open_failed, interrupted>>

\* run_merge lines 314-319.
run_merge_summary ==
    /\ pc = "after" /\ command = "merge"
    /\ ~NothingMerged(counts)
    /\ counts' = TouchAll(counts, 1..Len(dbs))
    /\ stdout' = stdout \o [j \in 1..Len(dbs) |-> <<"merged", j>>]
                        \o << <<"merge complete", 0>> >>
    /\ pc' = "returned"
    /\ UNCHANGED <<argVars, FILE1, FILE2, tickVars, guiVars, FILE, dbs, db_base, k, exc, postbacks, outfile,
                   logVars, barVars, workers_created, workerVars, histVars,
                   open_failed, interrupted>>

\* run_diff lines 445-448.
run_diff_end ==
    /\ pc = "after" /\ command = "diff"
    /\ bar_stopped' = TRUE
    /\ bar_value' = Clamp(bar_max, bar_max)
    /\ bar_percent' = Percent(Clamp(bar_max, bar_max), bar_max)
    /\ pc' = "returned"
    /\ UNCHANGED <<argVars, FILE1, FILE2, tickVars, guiVars, FILE, dbs, db_base, k,
                   exc, counts, postbacks, outfile, stdout, logVars,
                   bar_started, bar_max, workers_created, workerVars,
                   histVars, open_failed, interrupted>>

\* run_export lines 354-397, one database: chats were exported, there was
\* nothing to export, or an exception was caught and printed.
run_export_db ==
    /\ pc = "export" /\ k <= Len(dbs)
    /\ \E outcome \in {"exported", "no messages to export",
                       "error exporting"} :
          /\ output(outcome, k)
          /\ IF outcome = "exported" THEN LogLine(0)
                                      ELSE UNCHANGED logVars
    /\ k' = NextSource(k)
    /\ UNCHANGED <<argVars, FILE1, FILE2, tickVars, guiVars, FILE, pc, dbs, db_base, exc, counts, postbacks,
                   outfile, barVars, workers_created, workerVars,
                   histVars, open_failed, interrupted>>

run_export_end ==
    /\ pc = "export" /\ k > Len(dbs)
    /\ pc' = "returned"
    /\ UNCHANGED <<argVars, FILE1, FILE2, tickVars, guiVars, FILE, dbs, db_base, k, exc, counts, postbacks,
                   outfile, stdout, logVars, barVars, workers_created,
                   workerVars, histVars, open_failed, interrupted>>

\* ------------------------------------------------ the worker thread
\* workers.MergeThread / workers.SearchThread: one background thread per
\* worker instance, jobs run one at a time and strictly sequentially, the
\* stop flag polled between chats, one terminal postback per job.

\* self.postback(result) is postbacks.put(result).
postback(result) ==
    /\ CanPut(postbacks)
    /\ LET r == [result EXCEPT !.id = Len(emitted) + 1, !.job = wjob]
       IN /\ postbacks' = Append(postbacks, r)
          /\ emitted' = Append(emitted, r)

\* The non-terminal postbacks one chat (or one batch of search matches)
\* can produce.
ChatResults ==
    IF command = "search"
      THEN {[NoFields EXCEPT !.count = c, !.output = TRUE] : c \in 0..1}
      ELSE {[NoFields EXCEPT !.diff = n, !.index = wtotal - wleft + 1,
                             !.count = wtotal] : n \in 0..MaxDiffMsgs}
           \cup {[NoFields EXCEPT !.output = TRUE]}

\* Idle -> Running: the thread takes the next job handed to work().
WorkerTake ==
    /\ wpc = "idle" /\ ~wstop /\ wqueue # <<>>
    /\ wjob' = Head(wqueue)
    /\ wqueue' = Tail(wqueue)
    /\ \E n \in 0..(MaxChats - wchats) :
          wtotal' = n /\ wleft' = n /\ wchats' = wchats + n
    /\ wpc' = "check"
    /\ UNCHANGED <<mainVars, postbacks, emitted, wstop>>

\* Chat boundary, not cancelled, chats left: process the next one.
WorkerNextChat ==
    /\ wpc = "check" /\ ~wstop /\ wleft > 0
    /\ wpc' = "chat"
    /\ UNCHANGED <<mainVars, postbacks, emitted, wqueue, wjob, wtotal,
                   wleft, wchats, wstop>>

\* One chat processed: its postback is delivered.
WorkerChat ==
    /\ wpc = "chat"
    /\ \E r \in ChatResults : postback(r)
    /\ wleft' = wleft - 1
    /\ wpc' = "check"
    /\ UNCHANGED <<mainVars, wqueue, wjob, wtotal, wchats, wstop>>

\* The job fails: a single error postback, Running -> Failed.
WorkerError ==
    /\ wpc = "chat"
    /\ postback([NoFields EXCEPT !.error = TRUE])
    /\ wjob' = 0
    /\ wpc' = "idle"
    /\ UNCHANGED <<mainVars, wqueue, wtotal, wleft, wchats, wstop>>

\* Chat boundary, nothing left: the done postback, Running -> Completed.
WorkerDone ==
    /\ wpc = "check" /\ ~wstop /\ wleft = 0
    /\ postback([NoFields EXCEPT !.done = TRUE])
    /\ wjob' = 0
    /\ wpc' = "idle"
    /\ UNCHANGED <<mainVars, wqueue, wtotal, wleft, wchats, wstop>>

\* Chat boundary, cancelled: the stopped postback, Running -> Stopped,
\* and the thread ends.
WorkerStopped ==
    /\ wpc = "check" /\ wstop
    /\ postback([NoFields EXCEPT !.stopped = TRUE])
    /\ wjob' = 0
    /\ wpc' = "exited"
    /\ UNCHANGED <<mainVars, wqueue, wtotal, wleft, wchats, wstop>>

\* Cancelled while no job is running: the thread ends.
WorkerExit ==
    /\ wpc = "idle" /\ wstop
    /\ wpc' = "exited"
    /\ UNCHANGED <<mainVars, postbacks, emitted, wqueue, wjob, wtotal,
                   wleft, wchats, wstop>>

Worker ==
    \/ WorkerTake \/ WorkerNextChat \/ WorkerChat \/ WorkerError
    \/ WorkerDone \/ WorkerStopped \/ WorkerExit

Main ==
    \/ run \/ run_diff_same \/ run_diff_distinct
    \/ SkypeDatabase \/ SkypeDatabaseFails
    \/ run_merge_prepare \/ run_search_prepare \/ run_diff_prepare
    \/ run_export_prepare
    \/ for_exhausted \/ run_merge_work \/ run_merge_read_fails
    \/ run_search_work \/ run_diff_work
    \/ run_merge_get \/ run_search_get \/ run_diff_get
    \/ worker_stop \/ worker_join
    \/ run_merge_nothing \/ run_merge_summary \/ run_diff_end
    \/ run_export_db \/ run_export_end

Next == Main \/ Worker \/ KeyboardInterrupt

Spec == Init /\ [][Next]_vars

\* The threads are scheduled fairly; a Ctrl-C and an unreadable file are
\* the environment's choice and carry no fairness.
FairSpec == Spec /\ WF_vars(Main) /\ WF_vars(Worker)

\* ----------------------------------------------- merge with --output
\* The merge command with a name given for the output file. The option
\* changes what file run_merge copies the base to, writes and may delete,
\* and nothing else of the run.
OutputInit == Start({"merge"}, 1..MaxOutput)

OutputNext ==
    \/ run \/ SkypeDatabase \/ SkypeDatabaseFails
    \/ run_merge_copy_same \/ run_merge_prepare
    \/ for_exhausted \/ run_merge_work \/ run_merge_read_fails
    \/ run_merge_get
    \/ worker_stop \/ worker_join
    \/ run_merge_nothing \/ run_merge_summary
    \/ Worker \/ KeyboardInterrupt

OutputSpec == OutputInit /\ [][OutputNext]_vars

\* ------------------------------------------- the ProgressBar alone
\* One bar, as run_merge and run_diff use it during one job (lines 270-271,
\* 296-298, 303-305; 409-411, 437-439, 445-447), with its ticker thread
\* (lines 692-695) and update() (lines 665-684) taken statement by
\* statement, so that the two threads interleave as the interpreter lets
\* them. bpc of a thread:
\*   main:   "new", "get" (waiting for a postback), "clamp" / "percent" /
\*           "store" (in update), "stopped" (after bar.stop()), "end";
\*   ticker: "new", "run", "while", "call", "clamp" / "percent" / "store",
\*           "sleep", "exit".
\* The orchestrator's other state plays no part and stays as constructed.
BarInit ==
    /\ Init
    /\ command = "diff" /\ ~is_verbose
    /\ FILE1 = <<1>> /\ FILE2 = <<MaxName>>

otherVars == <<argVars, FILE1, FILE2, FILE, pc, dbs, db_base, k, exc, counts,
               postbacks, outfile, stdout, logVars, workers_created,
               workerVars, histVars, open_failed, interrupted, guiVars>>

\* bar.start(), lines 271 / 411: the ticker thread is started.
bar_start ==
    /\ bpc["main"] = "new"
    /\ bar_started' = TRUE
    /\ bpc' = [bpc EXCEPT !["main"] = "get", !["ticker"] = "run"]
    /\ UNCHANGED <<otherVars, bar_stopped, bar_max, bar_value, bar_percent,
                   bar_running, update_value, new_percent, progress, drawn>>

\* A progress postback is handled, lines 296-298 / 437-439:
\* "bar.max = result['count']" and the call bar.update(result['index']).
\* The worker reports a non-decreasing index.
bar_progress ==
    /\ bpc["main"] = "get"
    /\ \E index \in (IF progress = <<>> THEN -1 ELSE progress[1])..MaxIndex,
          count \in 0..MaxCount :
          /\ bar_max' = count
          /\ update_value' = [update_value EXCEPT !["main"] = index]
          /\ progress' = <<index, count>>
    /\ bpc' = [bpc EXCEPT !["main"] = "clamp"]
    /\ UNCHANGED <<otherVars, bar_started, bar_stopped, bar_value,
                   bar_percent, bar_running, new_percent, drawn>>

\* update(), line 667: self.value = min(self.max, max(self.min, value)).
update_clamp(t) ==
    /\ bpc[t] = "clamp"
    /\ bar_value' = Clamp(bar_max, update_value[t])
    /\ bpc' = [bpc EXCEPT ![t] = "percent"]
    /\ UNCHANGED <<otherVars, bar_started, bar_stopped, bar_max, bar_percent,
                   bar_running, update_value, new_percent, progress, drawn>>

\* update(), line 668: new_percent from self.value and self.max.
update_percent(t) ==
    /\ bpc[t] = "percent"
    /\ new_percent' = [new_percent EXCEPT ![t] = Percent(bar_value, bar_max)]
    /\ bpc' = [bpc EXCEPT ![t] = "store"]
    /\ UNCHANGED <<otherVars, barVars, bar_running, update_value, progress,
                   drawn>>

\* Where update() returns to.
Return(t, stopped) ==
    IF t = "ticker" THEN "sleep" ELSE IF stopped THEN "end" ELSE "get"

\* update(), lines 669-684: the bar text is built around new_percent,
\* self.percent = new_percent, and draw() prints the text. The locals die.
update_store(t) ==
    /\ bpc[t] = "store"
    /\ bar_percent' = new_percent[t]
    /\ drawn' = new_percent[t]
    /\ update_value' = [update_value EXCEPT ![t] = 0]
    /\ new_percent' = [new_percent EXCEPT ![t] = 0]
    /\ bpc' = [bpc EXCEPT ![t] = Return(t, bar_stopped)]
    /\ UNCHANGED <<otherVars, bar_started, bar_stopped, bar_max, bar_value,
                   bar_running, progress>>

\* The job has ended: bar.stop(), lines 303 / 445 and 697-698.
bar_stop ==
    /\ bpc["main"] = "get"
    /\ bar_running' = FALSE
    /\ bar_stopped' = TRUE
    /\ bpc' = [bpc EXCEPT !["main"] = "stopped"]
    /\ UNCHANGED <<otherVars, bar_started, bar_max, bar_value, bar_percent,
                   update_value, new_percent, progress, drawn>>

\* bar.update(bar.max), lines 305 / 447: the call with its argument.
bar_update_max ==
    /\ bpc["main"] = "stopped"
    /\ update_value' = [update_value EXCEPT !["main"] = bar_max]
    /\ bpc' = [bpc EXCEPT !["main"] = "clamp"]
    /\ UNCHANGED <<otherVars, barVars, bar_running, new_percent, progress,
                   drawn>>

\* ProgressBar.run, line 693: self.is_running = True.
ticker_run ==
    /\ bpc["ticker"] = "run"
    /\ bar_running' = TRUE
    /\ bpc' = [bpc EXCEPT !["ticker"] = "while"]
    /\ UNCHANGED <<otherVars, barVars, update_value, new_percent, progress,
                   drawn>>

\* Line 694: while self.is_running and time.
ticker_while ==
    /\ bpc["ticker"] = "while"
    /\ bpc' = [bpc EXCEPT !["ticker"] = IF bar_running THEN "call"
                                                       ELSE "exit"]
    /\ UNCHANGED <<otherVars, barVars, bar_running, update_value,
                   new_percent, progress, drawn>>

\* Line 695: the argument self.value of self.update(self.value) is read,
\* and update is called with it.
ticker_call ==
    /\ bpc["ticker"] = "call"
    /\ update_value' = [update_value EXCEPT !["ticker"] = bar_value]
    /\ bpc' = [bpc EXCEPT !["ticker"] = "clamp"]
    /\ UNCHANGED <<otherVars, barVars, bar_running, new_percent, progress,
                   drawn>>

\* Line 695: time.sleep(self.interval) is over.
ticker_sleep ==
    /\ bpc["ticker"] = "sleep"
    /\ bpc' = [bpc EXCEPT !["ticker"] = "while"]
    /\ UNCHANGED <<otherVars, barVars, bar_running, update_value,
                   new_percent, progress, drawn>>

BarNext ==
    \/ bar_start \/ bar_progress \/ bar_stop \/ bar_update_max
    \/ ticker_run \/ ticker_while \/ ticker_call \/ ticker_sleep
    \/ \E t \in Threads : update_clamp(t)
    \/ \E t \in Threads : update_percent(t)
    \/ \E t \in Threads : update_store(t)

BarSpec == BarInit /\ [][BarNext]_vars

\* The steps of the ticker thread. Once started the thread is scheduled
\* fairly; when the orchestrator's thread gets to bar.stop() is up to it.
Ticker ==
    \/ ticker_run \/ ticker_while \/ ticker_call \/ ticker_sleep
    \/ update_clamp("ticker") \/ update_percent("ticker")
    \/ update_store("ticker")

BarFairSpec == BarSpec /\ WF_vars(Ticker)

\* ------------------------------------- log() in the graphical program
\* The command "gui": run() leaves is_cli and is_verbose False and calls
\* run_gui (lines 518-550), which creates the main window (line 461).
\* log() and status() are module functions that any thread of the program
\* may call at any time, before and after the window exists; they take no
\* lock, so each statement is a step of its own and the steps of different
\* threads interleave. lpc of a thread:
\*   "idle"      outside log() / status()
\*   "test"      at "if window:" (lines 168 / 189)
\*   "append"    at deferred_logs.append / deferred_status[:] = [msg]
\*   "if_logs"   process_deferreds, at "if deferred_logs:" (line 246)
\*   "for"       at the loop head of "for msg in deferred_logs:" (line 247)
\*   "post_deferred"  at wx.PostEvent of the loop variable (line 248)
\*   "del"       at "del deferred_logs[:]" (line 249)
\*   "if_status" at "if deferred_status:" (line 250)
\*   "post_status" at wx.PostEvent(.. deferred_status[0]) (line 251)
\*   "del_status"  at "del deferred_status[:]" (line 252)
\*   "post"      at the wx.PostEvent of the call's own message (170 / 191)
\* The command-line state plays no part and stays as constructed.
is_cli == command # "gui"

LogInit ==
    /\ Start({"gui"}, {0})
    /\ ~is_verbose
    /\ FILE = <<1>>

cliVars == <<argVars, FILE1, FILE2, FILE, dbs, db_base, k, exc, counts,
             postbacks, outfile, stdout, barVars, tickVars, workers_created,
             workerVars, histVars, open_failed, interrupted>>

\* run_gui, line 461: the main thread, not inside log() or status(),
\* assigns the new MainWindow to the module's "window".
run_gui ==
    /\ pc = "run" /\ command = "gui"
    /\ lpc[1] = "idle"
    /\ window' = TRUE
    /\ pc' = "MainLoop"
    /\ UNCHANGED <<cliVars, logVars, deferred_status, posted, posted_status,
                   lpc, lkind, lmsg, lidx, lcur, ncalls, buffered,
                   log_raised>>

\* A thread calls log(text) or status(text), lines 151-167 / 177-188: the
\* message is formatted into the local msg. Calls are numbered in the
\* order in which they are made.
log_call(t, kind) ==
    /\ lpc[t] = "idle"
    /\ ncalls < MaxCalls
    /\ ncalls' = ncalls + 1
    /\ lmsg' = [lmsg EXCEPT ![t] = ncalls + 1]
    /\ lkind' = [lkind EXCEPT ![t] = kind]
    /\ lpc' = [lpc EXCEPT ![t] = "test"]
    /\ UNCHANGED <<cliVars, pc, logVars, window, deferred_status, posted,
                   posted_status, lidx, lcur, buffered, log_raised>>

\* "if window:" (lines 168 / 189), and inside process_deferreds again
\* (line 245; the window never goes away again), else
\* "elif is_cli and is_verbose:" (lines 171-172 / 192-193).
log_test(t) ==
    /\ lpc[t] = "test"
    /\ IF window
         THEN /\ lpc' = [lpc EXCEPT ![t] = "if_logs"]
              /\ UNCHANGED stderr
         ELSE IF is_cli /\ is_verbose
         THEN /\ stderr' = Append(stderr, lmsg[t])
              /\ lpc' = [lpc EXCEPT ![t] = "idle"]
         ELSE /\ lpc' = [lpc EXCEPT ![t] = "append"]
              /\ UNCHANGED stderr
    /\ UNCHANGED <<cliVars, pc, deferred_logs, window, deferred_status,
                   posted, posted_status, lkind, lmsg, lidx, lcur, ncalls,
                   buffered, log_raised>>

\* deferred_logs.append(msg), line 174; deferred_status[:] = [msg],
\* line 195.
log_append(t) ==
    /\ lpc[t] = "append"
    /\ IF lkind[t] = "log"
         THEN /\ deferred_logs' = Append(deferred_logs, lmsg[t])
              /\ buffered' = Append(buffered, lmsg[t])
              /\ UNCHANGED deferred_status
         ELSE /\ deferred_status' = <<lmsg[t]>>
              /\ UNCHANGED <<deferred_logs, buffered>>
    /\ lpc' = [lpc EXCEPT ![t] = "idle"]
    /\ UNCHANGED <<cliVars, pc, stderr, window, posted, posted_status, lkind,
                   lmsg, lidx, lcur, ncalls, log_raised>>

\* process_deferreds, line 246: "if deferred_logs:", and line 247: the
\* for statement creates the list iterator, at index 0.
pd_if_logs(t) ==
    /\ lpc[t] = "if_logs"
    /\ lpc' = [lpc EXCEPT ![t] = IF deferred_logs # <<>> THEN "for"
                                 ELSE "if_status"]
    /\ lidx' = [lidx EXCEPT ![t] = 0]
    /\ UNCHANGED <<cliVars, pc, logVars, window, deferred_status, posted,
                   posted_status, lkind, lmsg, lcur, ncalls, buffered,
                   log_raised>>

\* line 247, the loop head: the list iterator yields the element at its
\* index in the list as it is now, or ends the loop when the index has
\* reached the list's present length.
pd_for(t) ==
    /\ lpc[t] = "for"
    /\ IF lidx[t] < Len(deferred_logs)
         THEN /\ lcur' = [lcur EXCEPT ![t] = deferred_logs[lidx[t] + 1]]
              /\ lidx' = [lidx EXCEPT ![t] = lidx[t] + 1]
              /\ lpc' = [lpc EXCEPT ![t] = "post_deferred"]
         ELSE /\ lpc' = [lpc EXCEPT ![t] = "del"]
              /\ UNCHANGED <<lcur, lidx>>
    /\ UNCHANGED <<cliVars, pc, logVars, window, deferred_status, posted,
                   posted_status, lkind, lmsg, ncalls, buffered, log_raised>>

\* line 248: wx.PostEvent(window, guibase.LogEvent(text=msg)).
pd_post_deferred(t) ==
    /\ lpc[t] = "post_deferred"
    /\ posted' = Append(posted, lcur[t])
    /\ lpc' = [lpc EXCEPT ![t] = "for"]
    /\ UNCHANGED <<cliVars, pc, logVars, window, deferred_status,
                   posted_status, lkind, lmsg, lidx, lcur, ncalls, buffered,
                   log_raised>>

\* line 249: del deferred_logs[:].
pd_del(t) ==
    /\ lpc[t] = "del"
    /\ deferred_logs' = <<>>
    /\ lpc' = [lpc EXCEPT ![t] = "if_status"]
    /\ UNCHANGED <<cliVars, pc, stderr, window, deferred_status, posted,
                   posted_status, lkind, lmsg, lidx, lcur, ncalls, buffered,
                   log_raised>>

\* line 250: "if deferred_status:".
pd_if_status(t) ==
    /\ lpc[t] = "if_status"
    /\ lpc' = [lpc EXCEPT ![t] = IF deferred_status # <<>> THEN "post_status"
                                 ELSE "post"]
    /\ UNCHANGED <<cliVars, pc, logVars, window, deferred_status, posted,
                   posted_status, lkind, lmsg, lidx, lcur, ncalls, buffered,
                   log_raised>>

\* line 251: wx.PostEvent(window, StatusEvent(text=deferred_status[0]));
\* deferred_status[0] raises IndexError when the list has been emptied
\* since line 250, and the exception ends the thread's call.
pd_post_status(t) ==
    /\ lpc[t] = "post_status"
    /\ IF deferred_status # <<>>
         THEN /\ posted_status' = Append(posted_status, deferred_status[1])
              /\ lpc' = [lpc EXCEPT ![t] = "del_status"]
              /\ UNCHANGED log_raised
         ELSE /\ log_raised' = log_raised \cup {lmsg[t]}
              /\ lpc' = [lpc EXCEPT ![t] = "idle"]
              /\ UNCHANGED posted_status
    /\ UNCHANGED <<cliVars, pc, logVars, window, deferred_status, posted,
                   lkind, lmsg, lidx, lcur, ncalls, buffered>>

\* line 252: del deferred_status[:].
pd_del_status(t) ==
    /\ lpc[t] = "del_status"
    /\ deferred_status' = <<>>
    /\ lpc' = [lpc EXCEPT ![t] = "post"]
    /\ UNCHANGED <<cliVars, pc, logVars, window, posted, posted_status,
                   lkind, lmsg, lidx, lcur, ncalls, buffered, log_raised>>

\* lines 170 / 191: the call's own message is posted to the window.
log_post(t) ==
    /\ lpc[t] = "post"
    /\ IF lkind[t] = "log"
         THEN posted' = Append(posted, lmsg[t]) /\ UNCHANGED posted_status
         ELSE posted_status' = Append(posted_status, lmsg[t])
                /\ UNCHANGED posted
    /\ lpc' = [lpc EXCEPT ![t] = "idle"]
    /\ UNCHANGED <<cliVars, pc, logVars, window, deferred_status, lkind,
                   lmsg, lidx, lcur, ncalls, buffered, log_raised>>

LogNext ==
    \/ run_gui
    \/ \E t \in Loggers : log_call(t, "log")
    \/ \E t \in Loggers : log_call(t, "status")
    \/ \E t \in Loggers : log_test(t)
    \/ \E t \in Loggers : log_append(t)
    \/ \E t \in Loggers : pd_if_logs(t)
    \/ \E t \in Loggers : pd_for(t)
    \/ \E t \in Loggers : pd_post_deferred(t)
    \/ \E t \in Loggers : pd_del(t)
    \/ \E t \in Loggers : pd_if_status(t)
    \/ \E t \in Loggers : pd_post_status(t)
    \/ \E t \in Loggers : pd_del_status(t)
    \/ \E t \in Loggers : log_post(t)

LogSpec == LogInit /\ [][LogNext]_vars

\* ------------------------------------------------------------ properties
Terminal == {"returned", "raised", "sys_exit"}

Submitted == SeqToSet(submitted)

\* The loop handled an error / a loop-ending postback while at source j.
HandledErrorFor(j) ==
    \E i \in 1..Len(handled) : handled[i].error /\ handled_for[i] = j
HandledEndFor(j) ==
    \E i \in 1..Len(handled) :
        (handled[i].error \/ handled[i].done) /\ handled_for[i] = j

\* The diff postbacks handled while at source j, and their message total.
DiffsFor(j) ==
    {i \in 1..Len(handled) : handled_for[i] = j /\ handled[i].diff >= 0}
RECURSIVE SumDiff(_)
SumDiff(S) == IF S = {} THEN 0
              ELSE LET i == CHOOSE x \in S : TRUE
                   IN handled[i].diff + SumDiff(S \ {i})

Printed(tag, src) == \E i \in 1..Len(stdout) : stdout[i] = <<tag, src>>

C2_OutputDeletedIffNothingCounted ==
    command = "merge" =>
        /\ (pc # "returned") => outfile # "deleted"
        /\ (pc = "returned") =>
              (outfile = "deleted" <=> \A j \in 1..Len(dbs) : DiffsFor(j) = {})
        /\ (pc = "returned" /\ \E j \in 1..Len(dbs) : DiffsFor(j) # {})
              => outfile = "present"

C2_Witness ==
    /\ command = "merge" /\ pc = "returned"
    /\ DiffsFor(1) # {} /\ HandledErrorFor(2)
    /\ outfile = "present"

\* The two arguments of diff denoted one file: arguments.FILE, the sorted
\* distinct names given, holds a single name (the same string twice) or
\* two names with one real path.
SameFileGiven ==
    \/ Len(FILE) = 1
    \/ Len(FILE) = 2 /\ realpath(FILE[1]) = realpath(FILE[2])

\* C3 as stated: diff with two arguments naming the same file (the same
\* string, or two strings with one real path) prints "cannot compare X with
\* itself" and returns, with no database opened, no worker created and no
\* job submitted.
C3_SameFileIsReported ==
    (command = "diff" /\ pc \in Terminal /\ SameFileGiven) =>
        /\ pc = "returned"
        /\ Len(stdout) = 1 /\ stdout[1][1] = "cannot compare with itself"
        /\ dbs = <<>> /\ workers_created = 0 /\ submitted = <<>>

\* A source of the command line has been processed: its job was submitted
\* to the worker, or (export) its result line was printed.
Processed(f) ==
    \E j \in 1..Len(dbs) :
        /\ dbs[j] = f
        /\ \/ j \in Submitted
           \/ \E i \in 1..Len(stdout) : command = "export" /\ stdout[i][2] = j

\* The files that are sources: all of FILE, but the last one (the base)
\* for merge.
Sources ==
    IF command = "merge" THEN {FILE[i] : i \in 1..(Len(FILE) - 1)}
    ELSE SeqToSet(FILE)

\* C4 as stated: in run_merge, run_search and run_export, when one source
\* database cannot be opened or read, every other source is still
\* processed (no error postback and no Ctrl-C having ended the run).
C4_OtherSourcesStillProcessed ==
    (/\ command \in {"merge", "search", "export"}
     /\ pc \in Terminal
     /\ open_failed # 0 /\ ~interrupted
     /\ \A j \in 1..Len(dbs) : ~HandledErrorFor(j)) =>
        \A f \in Sources \ {open_failed} : Processed(f)

\* C5: in run_search an error postback for database j is printed and ends
\* only that database's search: a run that returns has submitted a job for
\* every database and handled each job's ending postback.
C5_SearchErrorSkipsOnlyThatDatabase ==
    command = "search" =>
        /\ \A j \in 1..Len(dbs) :
              HandledErrorFor(j) =>
                 /\ Printed("error searching", j)
                 /\ (pc = "get") => k > j
        /\ (pc = "returned") =>
              \A j \in 1..Len(dbs) : j \in Submitted /\ HandledEndFor(j)

C5_Witness ==
    /\ command = "search" /\ pc = "returned"
    /\ Len(dbs) >= 2 /\ HandledErrorFor(1)
    /\ Printed("result", 2) /\ ~HandledErrorFor(2)

\* C6 as stated: no worker instance is given more than one job.
C6_OneJobPerWorker == Len(submitted) <= workers_created

\* C6 amended: each orchestrator creates one worker instance and gives it
\* every job: run_diff a single job, run_merge and run_search one job per
\* source database in list order, each after the job before it has ended
\* with a done (in run_search also error) postback.
C6_OneWorkerReused ==
    /\ workers_created <= 1
    /\ (submitted # <<>>) => workers_created = 1
    /\ Len(submitted) <= (IF command = "diff" THEN 1 ELSE Len(dbs))
    /\ \A i \in 1..Len(submitted) :
          /\ submitted[i] = i
          /\ (i > 1) => HandledEndFor(i - 1)

C6_Witness ==
    /\ workers_created = 1 /\ Len(submitted) >= 2
    /\ \E i \in 1..Len(emitted) : emitted[i].job = 2 /\ emitted[i].done

\* Jobs handed to the worker whose error / done postback the main loop has
\* not taken yet.
EndsHandled ==
    Cardinality({i \in 1..Len(handled) : handled[i].error \/ handled[i].done})
ActiveJobs == Len(submitted) - EndsHandled

\* C7: work() is never called while an earlier job is still active, so at
\* most one job is active and at most one job is held or run by the
\* worker (against db2 in run_merge) at any time.
C7_NoSubmitWhileActive ==
    /\ ActiveJobs \in {0, 1}
    /\ Len(wqueue) + (IF wjob # 0 THEN 1 ELSE 0) <= 1
    /\ (pc = "for") => (ActiveJobs = 0 /\ wjob = 0 /\ wqueue = <<>>)

C7_Witness ==
    /\ command = "merge" /\ Len(submitted) = 2
    /\ wjob = 2 /\ wpc = "chat" /\ ActiveJobs = 1

\* C8: in run_merge, for every source j, counts[j]['chats'] is the number
\* of diff postbacks handled while j was the loop's source and
\* counts[j]['msgs'] the sum of their message counts, in every state: so
\* counts change only when a postback is handled, and only for the source
\* being processed.
C8_CountsMatchDiffPostbacks ==
    command = "merge" =>
        /\ \A j \in 1..Len(dbs) :
              /\ Entry(counts, j).chats = Cardinality(DiffsFor(j))
              /\ Entry(counts, j).msgs = SumDiff(DiffsFor(j))
        /\ DOMAIN counts \subseteq 1..Len(dbs)

C8_Witness ==
    /\ command = "merge" /\ pc = "returned" /\ Len(dbs) = 2
    /\ Entry(counts, 1) = [chats |-> 2, msgs |-> 1]
    /\ Entry(counts, 2) = [chats |-> 1, msgs |-> 1]

\* C9: the postbacks handled by the main loop are, in order and each once,
\* the first postbacks emitted; those emitted and not yet handled wait in
\* the queue in emission order; a run that returns has handled every
\* postback emitted.
C9_HandledInEmissionOrder ==
    /\ emitted = handled \o postbacks
    /\ \A i \in 1..Len(emitted) : emitted[i].id = i
    /\ (pc = "returned") => handled = emitted

C9_Witness ==
    /\ pc = "returned" /\ Len(handled) >= 4
    /\ handled = emitted /\ handled[Len(handled)].done

\* The worker is never held up by a delivery: whenever it is at a point
\* where it delivers a postback the put can go ahead, and while the main
\* thread waits in join the worker has ended or can step.
WorkerNeverBlocked ==
    /\ (wpc \in {"check", "chat"}) => ENABLED Worker
    /\ (pc = "join") => (wpc = "exited" \/ ENABLED Worker)

\* C10: delivering a postback never blocks the worker, and once the
\* finally clause is entered worker.stop() and worker.join() return: the
\* main thread leaves the join, also after a Ctrl-C has ended the loop
\* while the worker goes on delivering postbacks nobody takes.
C10_StopJoinReturns ==
    /\ []WorkerNeverBlocked
    /\ (pc = "finally") ~> (pc \in {"after"} \cup Terminal)

C10_Witness ==
    /\ pc = "sys_exit" /\ interrupted
    /\ Len(postbacks) >= 2
    /\ postbacks[Len(postbacks)].stopped

\* C11 as stated: during one job the percentage drawn by the ProgressBar
\* never decreases, for every sequence of progress postbacks with a
\* non-decreasing index, whatever the counts, and under every interleaving
\* of the ticker's update(self.value) with the orchestrator's
\* "bar.max = count; bar.update(index)".
C11_PercentNeverDecreases == [][drawn' >= drawn]_vars

\* C12 as stated: when the orchestrator has handled a progress postback
\* (index, count), the bar's max is count and its value is index clamped
\* into [0, count]; and when any update() returns, the value lies in
\* [min, max] = [0, max] and the percentage in [0, 100].
C12_ClampedAndInRange ==
    /\ [][(bpc["main"] = "store" /\ bpc'["main"] = "get") =>
             /\ bar_max' = progress[2]
             /\ bar_value' = Clamp(progress[2], progress[1])]_vars
    /\ [][(\E t \in Threads : bpc[t] = "store" /\ bpc'[t] # "store") =>
             /\ bar_value' \in 0..bar_max'
             /\ bar_percent' \in 0..100]_vars

\* The file names as the user gave them, while the command line is still
\* known.
Given == FILE1 \o FILE2
GivenDistinct == Cardinality(SeqToSet(Given)) = Len(Given)

\* C13 as stated: for merge with two or more distinct file names, the
\* database popped as base (and copied to the output) is the last file the
\* user gave on the command line.
C13_BaseIsLastGiven ==
    [][(command = "merge" /\ pc = "open" /\ pc' = "for" /\ GivenDistinct) =>
          db_base' = Given[Len(Given)]]_vars

\* C14 as stated: for diff with two distinct files, db1, the database
\* whose chats are submitted for scanning, is FILE1 and db2, the comparison
\* target, is FILE2, whatever the two names.
C14_FirstFileIsScanned ==
    [][(command = "diff" /\ pc = "open" /\ pc' = "work") =>
          /\ dbs'[1] = FILE1[1]
          /\ dbs'[2] = FILE2[1]]_vars

\* C15: however the postback loop of run_merge, run_search or run_diff is
\* left (all jobs done, an error postback, an exception or a Ctrl-C while
\* waiting for a postback), worker.stop() is called before worker.join(),
\* and the function is left only when the join has returned, the worker
\* thread having ended; a run that was interrupted ends in sys.exit(),
\* never with a stack trace.
C15_StopThenJoinOnEveryExit ==
    /\ (pc = "join") => wstop
    /\ (workers_created = 1 /\ pc \in {"after"} \cup Terminal) =>
          (wstop /\ wpc = "exited")
    /\ (pc \in Terminal /\ interrupted) => pc = "sys_exit"

C15_Witness ==
    /\ command = "search" /\ pc = "sys_exit" /\ interrupted
    /\ wstop /\ wpc = "exited" /\ Len(handled) >= 1

\* The ids of the output postbacks handled so far, in the order handled.
RECURSIVE OutputIds(_)
OutputIds(h) ==
    IF h = <<>> THEN <<>>
    ELSE (IF Head(h).output THEN <<Head(h).id>> ELSE <<>>)
            \o OutputIds(Tail(h))

\* C16: in run_merge and run_diff the text of every output postback is,
\* in the step that takes it from the queue, written to stderr when
\* --verbose is set; without --verbose nothing is ever written to stderr
\* and the text is appended to the deferred log buffer.
C16_OutputToStderrIffVerbose ==
    command \in {"merge", "diff"} =>
        /\ stderr = IF is_verbose THEN OutputIds(handled) ELSE <<>>
        /\ deferred_logs = IF is_verbose THEN <<>> ELSE OutputIds(handled)

C16_Witness ==
    /\ command = "diff" /\ is_verbose /\ pc = "returned"
    /\ Len(stderr) >= 2 /\ deferred_logs = <<>>

\* A terminal postback waits in the queue while the loop waits for one.
TerminalWaiting ==
    /\ pc = "get"
    /\ \E i \in 1..Len(postbacks) :
          postbacks[i].done \/ postbacks[i].error \/ postbacks[i].stopped

\* C17: once a job's terminal postback has been emitted the receive loop
\* is left: a done or error postback waiting in the queue is taken and
\* ends the loop, and a stopped postback is only ever emitted after
\* worker.stop(), when the loop has been left already; so the main thread
\* never stays blocked on the queue behind a terminal postback.
C17_LoopExitsAfterTerminal ==
    /\ [](\A i \in 1..Len(emitted) :
            emitted[i].stopped => pc \in {"join", "after"} \cup Terminal)
    /\ TerminalWaiting ~> (pc # "get")

C17_Witness ==
    /\ command = "merge" /\ pc = "sys_exit"
    /\ \E i \in 1..Len(handled) : handled[i].done
    /\ emitted # <<>> /\ emitted[Len(emitted)].stopped

\* C18: in run_merge and run_search every postback handled while the loop
\* is at source k was emitted by the job submitted for source k, and when
\* the next job is submitted nothing of an earlier job is left in the
\* queue or still to come.
C18_PostbacksBelongToTheirSource ==
    command \in {"merge", "search"} =>
        /\ \A i \in 1..Len(handled) : handled[i].job = handled_for[i]
        /\ (pc = "for") => (postbacks = <<>> /\ wjob = 0)

C18_Witness ==
    /\ command = "search" /\ pc = "returned" /\ Len(dbs) >= 2
    /\ \E i \in 1..Len(handled) : handled[i].job = 1 /\ handled[i].output
    /\ \E i \in 1..Len(handled) : handled[i].job = 2 /\ handled[i].output

\* run_merge has written to, or deleted, the input file f.
Overwritten(f) ==
    output_filename # 0 /\ SameFile(f, output_filename) /\ outfile # "none"
Deleted(f) ==
    output_filename # 0 /\ SameFile(f, output_filename) /\ outfile = "deleted"

\* C19 as stated: run_merge never overwrites, writes to or deletes one of
\* its input files (sources and base), whatever the --output name.
C19_InputsAreReadOnly ==
    command = "merge" =>
        \A f \in SeqToSet(FILE) : ~Overwritten(f) /\ ~Deleted(f)

\* The loop handled a result of non-zero count while at database j.
HandledMatchFor(j) ==
    \E i \in 1..Len(handled) : handled_for[i] = j /\ handled[i].count > 0
HandledDoneFor(j) ==
    \E i \in 1..Len(handled) : handled_for[i] = j /\ handled[i].done

\* C20: in run_search without --verbose, a database whose job delivers
\* done without any result of non-zero count gets no result line and no
\* error line, nothing is written to stderr, and the loop goes on to the
\* next database: a run that returns has submitted a job for every one.
C20_NoMatchEndsNormally ==
    (command = "search" /\ ~is_verbose) =>
        /\ \A j \in 1..Len(dbs) :
              (HandledDoneFor(j) /\ ~HandledMatchFor(j)) =>
                  /\ ~Printed("result", j)
                  /\ ~Printed("error searching", j)
                  /\ k > j
        /\ stderr = <<>>
        /\ (pc = "returned") => \A j \in 1..Len(dbs) : j \in Submitted

C20_Witness ==
    /\ command = "search" /\ ~is_verbose /\ pc = "returned"
    /\ Len(dbs) >= 2
    /\ \E i \in 1..Len(handled) :
          handled_for[i] = 1 /\ handled[i].count = 0 /\ handled[i].output
    /\ HandledDoneFor(1) /\ ~HandledMatchFor(1)
    /\ stdout = << <<"result", 2>> >>

\* C21 as stated: for a bar on which start() has been called, once stop()
\* has returned the ticker thread eventually ends, and it makes at most
\* one further update: having made the update it was in or about to
\* make, its next test of the loop condition ends the loop; under every
\* interleaving of start(), the thread's run() and stop().
C21_TickerEndsAfterStop ==
    /\ bar_stopped ~> (bpc["ticker"] = "exit")
    /\ [][(bar_stopped /\ bpc["ticker"] = "while") =>
             bpc'["ticker"] # "call"]_vars

\* C22 as stated: whenever run_merge or run_diff returns normally with
\* its bar started (all sources done, an error postback, or no source at
\* all), stop() has been called on the bar.
C22_BarStoppedOnReturn ==
    (command \in {"merge", "diff"} /\ pc = "returned" /\ bar_started) =>
        bar_stopped

\* C23 as stated, in the graphical program with several threads calling
\* log() and status(): every message that log() has appended to
\* deferred_logs is still in the buffer or has been posted to the window;
\* no message is posted twice; and the buffered messages that have been
\* posted were posted in the order in which they were buffered.
C23_DeferredPostedOnceInOrder ==
    /\ \A m \in SeqToSet(buffered) :
          m \in SeqToSet(deferred_logs) \cup SeqToSet(posted)
    /\ \A i, j \in DOMAIN posted : i # j => posted[i] # posted[j]
    /\ \A i, j \in DOMAIN posted :
          (i < j /\ posted[i] \in SeqToSet(buffered)
                 /\ posted[j] \in SeqToSet(buffered)) =>
          \E a, b \in DOMAIN buffered :
              a < b /\ buffered[a] = posted[i] /\ buffered[b] = posted[j]

=============================================================================
